---- MODULE Spec2Model ----
(***************************************************************************)
(* Model of BTS7960_esp32_controller.ino: class MyMotor (constructor and   *)
(* setSpeed), the global motor instance, setup() and loop().               *)
(*                                                                         *)
(* The hardware state is the MCPWM unit 0 / timer 0: whether mcpwm_init    *)
(* has configured it, and the duty (percent) of operator A (forward, RPWM) *)
(* and operator B (reverse, LPWM).  setSpeed issues two mcpwm_set_duty     *)
(* calls one after the other; the peripheral keeps generating PWM between  *)
(* them, so the state between the two writes is a state of the model.      *)
(*                                                                         *)
(* Two callers are modelled.  Spec lets an arbitrary caller invoke         *)
(* setSpeed with any argument of Inputs; SpecDemo is the sketch itself:    *)
(* static construction of the global motor, setup(), then loop() forever.  *)
(***************************************************************************)
EXTENDS Integers, Sequences, FiniteSets, TLC

\* Range of the C++ type int on the ESP32 (32 bit, two's complement).
INT_MAX == 2147483647
INT_MIN == -INT_MAX - 1

\* Arguments tried by the arbitrary caller: every value within NearBy of
\* the three boundaries -100, 0 and 100, the scenario values of the
\* documentation, and the two ends of int.
NearBy == 2
Inputs ==
  {INT_MIN, INT_MAX, -150, 150, -37, 37}
    \cup (-100 - NearBy .. -100 + NearBy)
    \cup (-NearBy .. NearBy)
    \cup (100 - NearBy .. 100 + NearBy)

\* The counter of completed setSpeed calls saturates here.
CallCap == 2

VARIABLES
  inited,     \* mcpwm_init has been applied to unit 0 / timer 0
  duty,       \* duty.A: operator A (forward), duty.B: operator B (reverse)
  serial,     \* last line written to Serial
  pc,         \* control position of the (single) thread
  speed,      \* setSpeed: the parameter speed, after the clamp
  dutyCycle,  \* setSpeed: the local dutyCycle
  phase,      \* loop(): which of the four for loops is running (1..4)
  i,          \* loop(): the for loop's variable speed
  arg,        \* history: argument of the current or latest setSpeed call
  prevArg,    \* history: argument of the call before that
  entry,      \* history: duty at the entry of the current or latest call
  nCalls,     \* history: completed setSpeed calls, saturating at CallCap
  rampCalls,  \* history: setSpeed calls made by the current for loop
  trace       \* history: duty left by each call of this loop() invocation

vars == <<inited, duty, serial, pc, speed, dutyCycle, phase, i,
          arg, prevArg, entry, nCalls, rampCalls, trace>>

hw     == <<inited, duty>>
locals == <<speed, dutyCycle>>
demo   == <<phase, i, rampCalls, trace>>
hist   == <<arg, prevArg, entry, nCalls>>

----------------------------------------------------------------------------
(* Pure parts of MyMotor                                                   *)

\* "if (speed < -100) speed = -100; if (speed > 100) speed = 100;"
Clamp_255(s) ==
  LET s1 == IF s < -255 THEN -255 ELSE s
  IN  IF s1 > 255 THEN 255 ELSE s1

Clamp(s) ==
  LET s1 == IF s < -100 THEN -100 ELSE s
  IN  IF s1 > 100 THEN 100 ELSE s1

\* Arduino's abs macro: ((x)>0?(x):-(x)).
abs(x) == IF x > 0 THEN x ELSE -x

\* Conversion int -> float (24 bit significand, round to nearest even).
RECURSIVE Ulp(_)
Ulp(m) == IF m < 16777216 THEN 1 ELSE 2 * Ulp(m \div 2)

IntToFloat(n) ==
  LET m    == abs(n)
      u    == Ulp(m)
      q    == m \div u
      r    == m % u
      up   == u > 1 /\ (2 * r > u \/ (2 * r = u /\ q % 2 = 1))
      mag  == IF up THEN (q + 1) * u ELSE q * u
  IN  IF n < 0 THEN -mag ELSE mag

\* "float dutyCycle = abs(speed);"
DutyCycle(s) == IntToFloat(abs(s))

\* The two mcpwm_set_duty calls of setSpeed, in program order, for a
\* clamped speed s and its dutyCycle dc: <<operator, duty>> each.
Writes_reverseFirst(s, dc) ==
  IF s > 0 THEN <<<<"A", dc>>, <<"B", 0>>>>
  ELSE IF s < 0 THEN <<<<"B", dc>>, <<"A", 0>>>>
  ELSE <<<<"A", 0>>, <<"B", 0>>>>

Writes_sameChannel(s, dc) ==
  IF s > 0 THEN <<<<"A", dc>>, <<"B", 0>>>>
  ELSE IF s < 0 THEN <<<<"A", 0>>, <<"A", dc>>>>
  ELSE <<<<"A", 0>>, <<"B", 0>>>>

Writes(s, dc) ==
  IF s > 0 THEN <<<<"A", dc>>, <<"B", 0>>>>
  ELSE IF s < 0 THEN <<<<"A", 0>>, <<"B", dc>>>>
  ELSE <<<<"A", 0>>, <<"B", 0>>>>

\* The status line setSpeed prints (value is printed only when moving).
StatusLine(s) ==
  IF s > 0 THEN [text |-> "Forward Speed: ", value |-> s, unit |-> "%"]
  ELSE IF s < 0 THEN [text |-> "Reverse Speed: ", value |-> s, unit |-> "%"]
  ELSE [text |-> "Motor Stopped", value |-> 0, unit |-> ""]

\* mcpwm_set_duty(MCPWM_UNIT_0, MCPWM_TIMER_0, opr, d): the operator's duty
\* becomes d, the other operator keeps its duty.
mcpwm_set_duty_add(cur, opr, d) ==
  [cur EXCEPT ![opr] = IF cur[opr] + d > 100 THEN 100 ELSE cur[opr] + d]

mcpwm_set_duty(cur, opr, d) == [cur EXCEPT ![opr] = d]

\* pwm_config as the constructor fills it.
PwmConfig_cmprUnset ==
  [frequency |-> 1000, cmpr_a |-> 0, cmpr_b |-> 50]

PwmConfig ==
  [frequency |-> 1000, cmpr_a |-> 0, cmpr_b |-> 0]

\* mcpwm_init(MCPWM_UNIT_0, MCPWM_TIMER_0, &cfg): the timer is configured
\* and both operators start at the duties of the configuration.
mcpwm_init(cfg) ==
  [inited |-> TRUE, duty |-> [A |-> cfg.cmpr_a, B |-> cfg.cmpr_b]]

\* The constructor, applied to the state h of the peripheral.
MyMotor_noInit(h) == h

MyMotor(h) == mcpwm_init(PwmConfig)

----------------------------------------------------------------------------
(* The four for loops of loop()                                            *)

RampStart(p) == CASE p = 1 -> 0 [] p = 2 -> 100 [] p = 3 -> 0 [] p = 4 -> -100

RampCond_strict(p, s) ==
  CASE p = 1 -> s < 100 [] p = 2 -> s > 0 [] p = 3 -> s > -100 [] p = 4 -> s < 0

RampCond(p, s) ==
  CASE p = 1 -> s <= 100 [] p = 2 -> s >= 0 [] p = 3 -> s >= -100 [] p = 4 -> s <= 0

RampStep_5(p) == CASE p = 1 -> 5 [] p = 2 -> -5 [] p = 3 -> -5 [] p = 4 -> 5

RampStep(p) == CASE p = 1 -> 10 [] p = 2 -> -10 [] p = 3 -> -10 [] p = 4 -> 10

----------------------------------------------------------------------------
(* Initial state: power-on, before the static constructors run.  The MCPWM *)
(* unit is unconfigured and its compare registers hold their reset value.  *)

Init ==
  /\ inited = FALSE
  /\ duty = [A |-> 0, B |-> 0]
  /\ serial = [text |-> "", value |-> 0, unit |-> ""]
  /\ pc = "static_init"
  /\ speed = 0
  /\ dutyCycle = 0
  /\ phase = 1
  /\ i = 0
  /\ arg = 0
  /\ prevArg = 0
  /\ entry = [A |-> 0, B |-> 0]
  /\ nCalls = 0
  /\ rampCalls = 0
  /\ trace = <<>>

\* "MyMotor motor(4, 15);": the constructor of the global instance.
Construct ==
  /\ pc = "static_init"
  /\ LET r == MyMotor([inited |-> inited, duty |-> duty])
     IN  /\ inited' = r.inited
         /\ duty' = r.duty
  /\ pc' = "setup"
  /\ UNCHANGED <<serial, locals, demo, hist>>

\* setup(): Serial.begin and the banner.
Setup ==
  /\ pc = "setup"
  /\ serial' = [text |-> "Starting Motor Test...", value |-> 0, unit |-> ""]
  /\ pc' = "main"
  /\ UNCHANGED <<hw, locals, demo, hist>>

\* Entry of setSpeed(a): the clamp and the computation of dutyCycle.
Enter(a) ==
  /\ speed' = Clamp(a)
  /\ dutyCycle' = DutyCycle(Clamp(a))
  /\ prevArg' = arg
  /\ arg' = a
  /\ entry' = duty
  /\ pc' = "write1"
  /\ UNCHANGED <<hw, serial, nCalls>>

\* First mcpwm_set_duty of the branch taken.
SetSpeedWrite1 ==
  /\ pc = "write1"
  /\ LET w == Writes(speed, dutyCycle)[1]
     IN  duty' = mcpwm_set_duty(duty, w[1], w[2])
  /\ pc' = "write2"
  /\ UNCHANGED <<inited, serial, locals, demo, hist>>

\* Second mcpwm_set_duty of the branch taken.
SetSpeedWrite2 ==
  /\ pc = "write2"
  /\ LET w == Writes(speed, dutyCycle)[2]
     IN  duty' = mcpwm_set_duty(duty, w[1], w[2])
  /\ pc' = "print"
  /\ UNCHANGED <<inited, serial, locals, demo, hist>>

\* The Serial output of the branch and the return of setSpeed.
Return(to) ==
  /\ pc = "print"
  /\ serial' = StatusLine(speed)
  /\ nCalls' = IF nCalls < CallCap THEN nCalls + 1 ELSE nCalls
  /\ pc' = to
  /\ UNCHANGED <<hw, locals, arg, prevArg, entry>>

----------------------------------------------------------------------------
(* Caller 1: any sequence of setSpeed calls on the constructed motor        *)

ApiCall ==
  /\ pc = "main"
  /\ \E a \in Inputs : Enter(a)
  /\ UNCHANGED demo

ApiReturn ==
  /\ Return("main")
  /\ UNCHANGED demo

Next ==
  \/ Construct
  \/ Setup
  \/ ApiCall
  \/ SetSpeedWrite1
  \/ SetSpeedWrite2
  \/ ApiReturn

Spec == Init /\ [][Next]_vars

----------------------------------------------------------------------------
(* Caller 2: the sketch, loop() invoked again and again by the Arduino core *)

\* loop() is entered: "for (int speed = 0; ..." of the first for loop.
LoopEnter ==
  /\ pc = "main"
  /\ phase' = 1
  /\ i' = RampStart(1)
  /\ rampCalls' = 0
  /\ trace' = <<>>
  /\ pc' = "for"
  /\ UNCHANGED <<hw, serial, locals, hist>>

\* The for condition holds: motor.setSpeed(speed).
LoopCall ==
  /\ pc = "for"
  /\ RampCond(phase, i)
  /\ Enter(i)
  /\ rampCalls' = rampCalls + 1
  /\ UNCHANGED <<phase, i, trace>>

\* setSpeed returns; delay(500); the for loop's increment.
LoopIncr ==
  /\ Return("for")
  /\ i' = i + RampStep(phase)
  /\ trace' = Append(trace, <<duty.A, duty.B>>)
  /\ UNCHANGED <<phase, rampCalls>>

\* The for condition fails: delay(2000) and the next for loop starts.
RampExit ==
  /\ pc = "for"
  /\ ~RampCond(phase, i)
  /\ phase < 4
  /\ phase' = phase + 1
  /\ i' = RampStart(phase + 1)
  /\ rampCalls' = 0
  /\ UNCHANGED <<hw, serial, pc, locals, hist, trace>>

\* The last for condition fails: delay(2000) and loop() returns.
LoopReturn ==
  /\ pc = "for"
  /\ ~RampCond(phase, i)
  /\ phase = 4
  /\ pc' = "main"
  /\ UNCHANGED <<hw, serial, locals, hist, demo>>

NextDemo ==
  \/ Construct
  \/ Setup
  \/ LoopEnter
  \/ LoopCall
  \/ SetSpeedWrite1
  \/ SetSpeedWrite2
  \/ LoopIncr
  \/ RampExit
  \/ LoopReturn

SpecDemo == Init /\ [][NextDemo]_vars

\* The single thread always runs and every delay() is finite.
SpecDemoLive == Init /\ [][NextDemo]_vars /\ WF_vars(NextDemo)

----------------------------------------------------------------------------
(* Properties                                                              *)

\* C1: once setSpeed(s) with s in [-100, 100] has returned, the forward
\* duty is max(s, 0) and the reverse duty is max(-s, 0), from any prior
\* channel state; exactly one channel is nonzero when s # 0 and both are
\* zero when s = 0.
C1_SpeedToDuty ==
  LET Max(a, b) == IF a > b THEN a ELSE b
      nonzero == Cardinality({c \in {"A", "B"} : duty[c] # 0})
  IN  (pc = "main" /\ nCalls > 0 /\ arg \in -100 .. 100) =>
        /\ duty.A = Max(arg, 0)
        /\ duty.B = Max(-arg, 0)
        /\ nonzero = IF arg = 0 THEN 0 ELSE 1

C1_Witness ==
  /\ pc = "main" /\ nCalls > 0
  /\ arg = -37 /\ entry = [A |-> 100, B |-> 0]
  /\ duty = [A |-> 0, B |-> 37]

\* C2: an argument above 100 is used as 100 and one below -100 as -100,
\* up to the ends of int; the call then leaves the duties of setSpeed(100)
\* resp. setSpeed(-100), prints the ordinary status line, and no duty of
\* either channel is ever outside 0..100.
C2_Saturation ==
  LET inCall == pc \in {"write1", "write2", "print"}
      done   == pc = "main" /\ nCalls > 0
  IN  /\ duty.A \in 0 .. 100 /\ duty.B \in 0 .. 100
      /\ (inCall /\ arg > 100) => (speed = 100 /\ dutyCycle = 100)
      /\ (inCall /\ arg < -100) => (speed = -100 /\ dutyCycle = 100)
      /\ (done /\ arg > 100) =>
            /\ duty = [A |-> 100, B |-> 0]
            /\ serial = [text |-> "Forward Speed: ", value |-> 100, unit |-> "%"]
      /\ (done /\ arg < -100) =>
            /\ duty = [A |-> 0, B |-> 100]
            /\ serial = [text |-> "Reverse Speed: ", value |-> -100, unit |-> "%"]

C2_Witness ==
  /\ pc = "main" /\ nCalls >= 2
  /\ prevArg = INT_MAX /\ entry = [A |-> 100, B |-> 0]
  /\ arg = INT_MIN /\ duty = [A |-> 0, B |-> 100]

\* C3: the forward duty and the reverse duty are never both nonzero, in
\* any state after construction and any sequence of setSpeed calls, the
\* state between the two writes of one call included.
C3_AtMostOneNonzero == ~(duty.A # 0 /\ duty.B # 0)

\* C4: setSpeed is idempotent: a second setSpeed(s) right after
\* setSpeed(s) leaves the duties the first call left.
C4_Idempotent ==
  (pc = "main" /\ nCalls >= 2 /\ arg = prevArg) => duty = entry

C4_Witness ==
  /\ pc = "main" /\ nCalls >= 2
  /\ arg = -37 /\ prevArg = -37
  /\ duty = [A |-> 0, B |-> 37]

\* C5: from the end of the constructor until the first setSpeed call
\* writes a duty, both channel duties are 0.
C5_StoppedAfterConstruction ==
  (pc \in {"setup", "main", "write1"} /\ nCalls = 0) =>
     duty = [A |-> 0, B |-> 0]

C5_Witness ==
  /\ pc = "main" /\ nCalls = 0 /\ inited
  /\ duty = [A |-> 0, B |-> 0]

\* C6: the calls of one loop() invocation leave, in this order, forward
\* 0,10,..,100 then 100,90,..,0 with reverse 0, then reverse 0,10,..,100
\* then 100,90,..,0 with forward 0, and nothing else.
C6_DemoSequence ==
  LET up   == [k \in 1 .. 11 |-> 10 * (k - 1)]
      down == [k \in 1 .. 11 |-> 100 - 10 * (k - 1)]
      expected ==
        [k \in 1 .. 11 |-> <<up[k], 0>>] \o [k \in 1 .. 11 |-> <<down[k], 0>>]
          \o [k \in 1 .. 11 |-> <<0, up[k]>>] \o [k \in 1 .. 11 |-> <<0, down[k]>>]
      returned == pc = "main" /\ nCalls > 0
  IN  /\ Len(trace) <= 44
      /\ trace = SubSeq(expected, 1, Len(trace))
      /\ returned => Len(trace) = 44

C6_Witness ==
  /\ pc = "main" /\ nCalls > 0
  /\ Len(trace) = 44
  /\ trace[11] = <<100, 0>> /\ trace[33] = <<0, 100>>

\* C7: mcpwm_init has completed before the first mcpwm_set_duty of any
\* setSpeed call is issued.
C7_InitBeforeWrite ==
  (pc \in {"write1", "write2", "print"} \/ nCalls > 0) => inited

C7_Witness ==
  /\ pc = "write1" /\ nCalls = 0 /\ inited

\* C8: in the demo every call with s > 0 is made when the reverse duty is
\* 0 and every call with s < 0 when the forward duty is 0, and no state,
\* between the two writes and across loop() invocations included, has
\* both channels nonzero.
C8_DemoThroughZero ==
  /\ duty.A = 0 \/ duty.B = 0
  /\ (pc = "write1" /\ arg > 0) => duty.B = 0
  /\ (pc = "write1" /\ arg < 0) => duty.A = 0

C8_Witness ==
  /\ pc = "write2" /\ arg = 10 /\ phase = 1
  /\ nCalls >= 2 /\ Len(trace) = 1
  /\ duty = [A |-> 10, B |-> 0]

\* C9: every for loop of loop() makes exactly 11 setSpeed calls, every
\* loop() invocation returns, and full forward, full reverse and stopped
\* are each reached infinitely often.
C9_DemoRunsForever ==
  /\ []((pc = "for" /\ ~RampCond(phase, i)) => rampCalls = 11)
  /\ [](pc = "for" => <>(pc = "main"))
  /\ []<>(duty = [A |-> 100, B |-> 0])
  /\ []<>(duty = [A |-> 0, B |-> 100])
  /\ []<>(duty = [A |-> 0, B |-> 0])

C9_Witness ==
  /\ pc = "for" /\ phase = 4 /\ ~RampCond(phase, i)
  /\ rampCalls = 11 /\ Len(trace) = 44 /\ nCalls >= 2

\* C10: for s <= 0, setSpeed(s) writes the forward channel to 0 before it
\* writes the reverse channel, so no state of the call has both channels
\* nonzero.
C10_ReverseWritesForwardFirst ==
  LET inCall == pc \in {"write1", "write2", "print"}
  IN  /\ (inCall /\ arg <= 0) => ~(duty.A # 0 /\ duty.B # 0)
      /\ (pc = "write2" /\ arg <= 0) => (duty.A = 0 /\ duty.B = entry.B)

C10_Witness ==
  /\ pc = "write2" /\ arg = -37
  /\ entry = [A |-> 100, B |-> 0]
  /\ duty = [A |-> 0, B |-> 0]

====
